---- MODULE Spec2Model ----
(***************************************************************************)
(* s3_memoize: a memoizing decorator whose cache is an S3 bucket.          *)
(* Model of src/s3_memoize/s3_memoize.py: key derivation (_make_key, md5), *)
(* the bucket-backed dictionary (_S3Dict) and the wrapper's call protocol  *)
(* (_s3_cache_wrapper), with the bucket, the clock and the user function   *)
(* as the environment.                                                     *)
(***************************************************************************)
EXTENDS Integers, Sequences, FiniteSets, TLC

(***************************************************************************)
(* Bounds of the model.                                                    *)
(***************************************************************************)
\* largest integer maxsize a wrapper is constructed with
MaxSize == 2
\* last value of the bucket clock; writes at the last value share a timestamp
MaxClock == 3
\* cap on hits + misses of one wrapper between two cache_clear calls
MaxCalls == 4
\* cap on the calls made one at a time after the concurrent ones
MaxLater == 1

(***************************************************************************)
(* Python values.  A value is its type name and its literal text; None is  *)
(* the value of type NoneType.                                             *)
(***************************************************************************)
PyInt(s) == [t |-> "int", lit |-> s]
PyFloat(s) == [t |-> "float", lit |-> s]
PyStr(s) == [t |-> "str", lit |-> s]
PyTuple(s) == [t |-> "tuple", lit |-> s]
PyList(s) == [t |-> "list", lit |-> s]
PySet(s) == [t |-> "set", lit |-> s]
None == [t |-> "NoneType", lit |-> "None"]

\* type(v), as the class object whose text is <class 'int'>
TypeOf(v) == [t |-> "type", lit |-> "<class '" \o v.t \o "'>"]

\* repr(v): strings are quoted, sequences bracketed
Repr(v) ==
  CASE v.t = "str" -> "'" \o v.lit \o "'"
    [] v.t = "list" -> "[" \o v.lit \o "]"
    [] v.t = "tuple" -> "(" \o v.lit \o ")"
    [] v.t = "set" -> "{" \o v.lit \o "}"
    [] OTHER -> v.lit

\* str(v): a string is its own text, everything else its repr
Str(v) == IF v.t = "str" THEN v.lit ELSE Repr(v)

\* hash(v) raises TypeError for the mutable containers
Hashable(v) == v.t \notin {"list", "set"}

(***************************************************************************)
(* KeyCodec: _make_key and the md5 digest of the key's text.               *)
(***************************************************************************)
\* the keyword marker the wrapper passes: kwd_mark = ('kwd_mark',)
kwd_mark == <<PyStr("kwd_mark")>>

\* fasttypes = {int, str}
fasttypes == {"int", "str"}

RECURSIVE KwdItems(_)
\* key += item for each (name, value) of kwds.items(), in call order
KwdItems(kwds) ==
  IF kwds = <<>> THEN <<>>
  ELSE <<PyStr(Head(kwds)[1]), Head(kwds)[2]>> \o KwdItems(Tail(kwds))

\* tuple(type(v) for v in seq)
TypesOf(seq) == [i \in 1..Len(seq) |-> TypeOf(seq[i])]

\* the values of kwds, in call order
KwdValues(kwds) == [i \in 1..Len(kwds) |-> kwds[i][2]]

\* mutant: the tuple is not hashed
_HashedSeq_NoHash(key) == [raised |-> "none", fast |-> FALSE, items |-> key]

\* _HashedSeq(key): a list of the items; hashing the tuple raises TypeError
\* when an item is unhashable
_HashedSeq(key) ==
  IF \A i \in 1..Len(key) : Hashable(key[i])
  THEN [raised |-> "none", fast |-> FALSE, items |-> key]
  ELSE [raised |-> "TypeError", fast |-> FALSE, items |-> <<>>]

\* mutant: the types are never appended
_make_key_Untyped(a, kwds, is_typed) ==
  LET k1 == IF kwds # <<>> THEN a \o kwd_mark \o KwdItems(kwds) ELSE a
  IN  IF Len(k1) = 1 /\ k1[1].t \in fasttypes
      THEN [raised |-> "none", fast |-> TRUE, items |-> k1]
      ELSE _HashedSeq(k1)

\* _make_key(args, kwds, typed)
_make_key(a, kwds, is_typed) ==
  LET k1 == IF kwds # <<>> THEN a \o kwd_mark \o KwdItems(kwds) ELSE a
      k2 == IF is_typed
            THEN k1 \o TypesOf(a)
                    \o (IF kwds # <<>> THEN TypesOf(KwdValues(kwds)) ELSE <<>>)
            ELSE k1
  IN  IF ~is_typed /\ Len(k2) = 1 /\ k2[1].t \in fasttypes
      THEN [raised |-> "none", fast |-> TRUE, items |-> k2]
      ELSE _HashedSeq(k2)

RECURSIVE JoinRepr(_)
\* the items' reprs separated by ", "
JoinRepr(items) ==
  IF items = <<>> THEN ""
  ELSE IF Len(items) = 1 THEN Repr(items[1])
  ELSE Repr(Head(items)) \o ", " \o JoinRepr(Tail(items))

\* str(k): the bare value on the fast path, a list's text otherwise
StrKey(k) ==
  IF k.fast THEN Str(k.items[1]) ELSE "[" \o JoinRepr(k.items) \o "]"

\* md5(text.encode()).hexdigest() on the texts the model's calls produce
Md5Hex(text) ==
  CASE text = "1" -> "c4ca4238a0b923820dcc509a6f75849b"
    [] text = "2" -> "c81e728d9d4c2f636f067f89cc14862c"
    [] text = "3" -> "eccbc87e4b5ce2fe28308fd9f2a7baf3"
    [] text = "[1, <class 'int'>]" -> "711c354b800528151a8e8e5683814a78"
    [] text = "[2, <class 'int'>]" -> "be0ccc568dbb9b73964f06d581d37f92"
    [] text = "[3, <class 'int'>]" -> "8f1d84b7170c58bc5a1de21e892c981d"
    [] text = "[1.0]" -> "84b7e6bf8e3cd674011866c606a8011d"
    [] text = "[1.0, <class 'float'>]" -> "160e3d5b1e9a9f8031ce46d63cebb9d9"
    [] text = "['1', <class 'str'>]" -> "8d664de5a4fddf3cf874ff993a411103"
    [] text = "['kwd_mark', 'x', 1]" -> "163e69b97fb5b633e30f1a7224e05982"
    [] text = "[[1]]" -> "f0a54eaaf7d53e4ff1ba587d1e374b7c"
    [] text = "[[1], <class 'list'>]" -> "153fe466beb9a9adf49a0f696d662373"
    [] text = "['kwd_mark', 'x', [1]]" -> "d0b2a227bc4d40940bdf92a5277d7af1"
    [] text = "['kwd_mark', 'x', [1], <class 'list'>]"
         -> "884168c24051f160a363fba3e3dabe90"

\* a call's arguments: positional values and keyword (name, value) pairs
CallOf(a, kwds) == [args |-> a, kwds |-> kwds]

\* the calls the callers make: f(1), f(2), f(3)
CallArgs ==
  { CallOf(<<PyInt("1")>>, <<>>),
    CallOf(<<PyInt("2")>>, <<>>),
    CallOf(<<PyInt("3")>>, <<>>) }

\* lines 107-108 of the wrapper: the storage key of a call
KeyOf(c, is_typed) == Md5Hex(StrKey(_make_key(c.args, c.kwds, is_typed)))

(***************************************************************************)
(* JSON: dumps / loads on the values the user function returns.            *)
(***************************************************************************)
\* json.dumps(v): the text, or a TypeError for a value JSON cannot encode
Dumps(v) ==
  CASE v.t \in {"int", "float"} -> [raised |-> "none", text |-> v.lit]
    [] v.t = "str" -> [raised |-> "none", text |-> "\"" \o v.lit \o "\""]
    [] v.t \in {"tuple", "list"} -> [raised |-> "none", text |-> "[" \o v.lit \o "]"]
    [] v.t = "NoneType" -> [raised |-> "none", text |-> "null"]
    [] OTHER -> [raised |-> "TypeError", text |-> ""]

\* what the user function may return: a tuple, which JSON encodes as an
\* array, or a set, which it cannot encode
Results == { PyTuple("1, 2"), PySet("1") }

\* the values json.loads produces (arrays decode to lists, never tuples)
Decoded == { PyInt("7"), PyList("1, 2"), None }

\* json.loads(text) for the texts dumps wrote
Loads(text) == CHOOSE v \in Decoded : Dumps(v).text = text

(***************************************************************************)
(* State.                                                                  *)
(***************************************************************************)
VARIABLES
  is_lru,      \* _S3Dict.is_lru: FALSE for s3_fifo_cache, TRUE for s3_lru_cache
  maxsize,     \* the wrapper's maxsize: Unlimited (None) or Limit(n), n > 0
  typed,       \* the wrapper's typed flag
  built,       \* the wrappers constructed: each holds a handle on the bucket
  bucket,      \* the S3 bucket: storage key -> object, for the objects present
  now,         \* the bucket's clock, the source of last_modified
  lifecycle,   \* the bucket's lifecycle configuration: its list of rules
  hits,        \* hits of each wrapper
  misses,      \* misses of each wrapper
  called,      \* history: the calls of each wrapper that derived a key, since
               \* its construction or last cache_clear
  pc,          \* where each caller is in the operation it runs
  op,          \* the operation each caller runs, or ran last
  wr,          \* the wrapper that operation is on
  args,        \* the arguments of the caller's wrapper call
  key,         \* the storage key of the call
  rd,          \* how the call's read of the store ended
  result,      \* the user function's result in the call
  status,      \* how the operation ended
  ret,         \* what the operation returned
  evicted,     \* the key the call's popitem deleted
  queue        \* history: the keys present, in the order the policy is to
               \* evict them (FIFO: by last write; LRU: by last write or read)

config == <<is_lru, maxsize, typed, built>>
store == <<bucket, now, lifecycle>>
counters == <<hits, misses, called>>
locals == <<pc, op, wr, args, key, rd, result, status, ret, evicted>>
vars == <<config, store, counters, locals, queue>>

Callers == {"c1", "c2"}
Wrappers == {"A", "B"}

\* the callers and wrappers in use: one caller, one wrapper, used sequentially
ActiveCallers == {"c1"}
ActiveWrappers == {"A"}

\* maxsize=None and maxsize=n
Unlimited == [int |-> FALSE, n |-> 0]
Limit(n) == [int |-> TRUE, n |-> n]

NoCall == CallOf(<<>>, <<>>)
NoValue == [t |-> "none", lit |-> ""]
NoOp ==
  [op |-> "none", wr |-> "A", args |-> NoCall, key |-> "", rd |-> "none",
   result |-> NoValue, status |-> "none", ret |-> NoValue, evicted |-> ""]

(***************************************************************************)
(* RemoteStore: _S3Dict over the bucket.                                   *)
(***************************************************************************)
\* the timestamps a write made now may get: the clock's second, or the next
NextStamps == {t \in {now, now + 1} : t <= MaxClock}

Without(b, k) == [x \in DOMAIN b \ {k} |-> b[x]]
With(b, k, obj) == [x \in DOMAIN b \cup {k} |-> IF x = k THEN obj ELSE b[x]]

\* the ways a read of an object can fail
ReadFaults == {"none", "download", "copy", "decode"}

\* mutant: the copy leaves last_modified as it was
Touch_KeepsStamp(b, k, t) == b

\* the LRU touch: a copy of the object onto itself, which keeps body and
\* metadata and refreshes last_modified
Touch(b, k, t) == With(b, k, [b[k] EXCEPT !.last_modified = t])

\* _S3Dict.__getitem__(key) under fault f, a touch being stamped t
GetItem(b, k, f, t) ==
  IF k \notin DOMAIN b THEN [raised |-> "notfound", value |-> NoValue, bucket |-> b]
  ELSE IF f = "download" THEN [raised |-> "download", value |-> NoValue, bucket |-> b]
  ELSE IF is_lru /\ f = "copy" THEN [raised |-> "copy", value |-> NoValue, bucket |-> b]
  ELSE LET b1 == IF is_lru THEN Touch(b, k, t) ELSE b
       IN  IF f = "decode" THEN [raised |-> "decode", value |-> NoValue, bucket |-> b1]
           ELSE [raised |-> "none", value |-> Loads(b[k].body), bucket |-> b1]

\* mutant: only a missing key is caught, any other failure is raised
Get_CatchesNotFoundOnly(b, k, f, t) ==
  LET r == GetItem(b, k, f, t)
  IN  [raised |-> IF r.raised \in {"none", "notfound"} THEN "none" ELSE r.raised,
       absent |-> r.raised # "none", rd |-> r.raised, value |-> r.value,
       bucket |-> r.bucket]

\* _S3Dict.get(key, default): any exception of __getitem__ is caught and
\* yields the default
Get(b, k, f, t) ==
  LET r == GetItem(b, k, f, t)
  IN  [raised |-> "none", absent |-> r.raised # "none", rd |-> r.raised,
       value |-> r.value, bucket |-> r.bucket]

\* mutant: the value is serialized and the upload is lost
SetItem_NoUpload(b, k, v, t) == [raised |-> Dumps(v).raised, bucket |-> b]

\* mutant: when the value cannot be serialized, null is uploaded in its place
SetItem_StoresOnError(b, k, v, t) ==
  LET d == Dumps(v)
  IN  [raised |-> d.raised,
       bucket |-> With(b, k, [body |-> IF d.raised # "none" THEN "null" ELSE d.text,
                              last_modified |-> t, created |-> t])]

\* mutant: an object already stored under the key is kept
SetItem_KeepsExisting(b, k, v, t) ==
  LET d == Dumps(v)
  IN  IF d.raised # "none" THEN [raised |-> d.raised, bucket |-> b]
      ELSE IF k \in DOMAIN b THEN [raised |-> "none", bucket |-> b]
      ELSE [raised |-> "none",
            bucket |-> With(b, k, [body |-> d.text, last_modified |-> t,
                                   created |-> t])]

\* _S3Dict.__setitem__(key, value), the upload being stamped t; the Created
\* metadata is the time of the same write
SetItem(b, k, v, t) ==
  LET d == Dumps(v)
  IN  IF d.raised # "none" THEN [raised |-> d.raised, bucket |-> b]
      ELSE [raised |-> "none",
            bucket |-> With(b, k, [body |-> d.text, last_modified |-> t,
                                   created |-> t])]

\* _S3Dict.__len__()
S3Len(b) == Cardinality(DOMAIN b)

\* mutant: nothing is deleted
S3Clear_Noop(b) == b

\* _S3Dict.clear()
S3Clear(b) == [x \in {} |-> b[x]]

\* mutant: min and max swapped
PopTargets_Swapped(b, last) ==
  {k \in DOMAIN b :
     \A x \in DOMAIN b :
        IF last THEN b[k].last_modified <= b[x].last_modified
        ELSE b[x].last_modified <= b[k].last_modified}

\* mutant: the oldest object whatever last is
PopTargets_IgnoresLast(b, last) ==
  {k \in DOMAIN b : \A x \in DOMAIN b : b[k].last_modified <= b[x].last_modified}

\* the objects popitem may pick: min(..., key=last_modified) when last is
\* false, max(...) when true; which of several equal ones is the listing's
\* business
PopTargets(b, last) ==
  {k \in DOMAIN b :
     \A x \in DOMAIN b :
        IF last THEN b[x].last_modified <= b[k].last_modified
        ELSE b[k].last_modified <= b[x].last_modified}

\* mutant: the newest object when the policy is LRU
EvictLast_ByPolicy == is_lru

\* the direction the wrapper asks popitem for: cache.popitem(last=False)
EvictLast == FALSE

\* mutant: the bound is tested with > instead of >=
AtCapacity_Greater(n) == maxsize.int /\ n > maxsize.n

\* mutant: the count is not tested
AtCapacity_AnyCount(n) == maxsize.int

\* line 115: isinstance(maxsize, int) and cache_len() >= maxsize
AtCapacity(n) == maxsize.int /\ n >= maxsize.n

\* the days arguments callers pass to cache_set_expiration
DaysInputs ==
  { None, PyInt("0"), PyInt("-1"), PyInt("1"), PyInt("30"), PyFloat("1.5") }

\* the number an int value stands for
IntOf(v) ==
  CASE v.lit = "1" -> 1 [] v.lit = "2" -> 2 [] v.lit = "30" -> 30 [] v.lit = "0" -> 0
    [] v.lit = "-1" -> -1

\* the lifecycle rule set_expiration puts
ExpirationRule(d) ==
  [Days |-> IntOf(d), Prefix |-> "", ID |-> "Expire after " \o Str(d) \o " days",
   Status |-> "Enabled"]

\* mutant: zero days pass the check
SetExpiration_AcceptsZero(rules, d) ==
  IF d = None THEN [raised |-> "none", rules |-> <<>>]
  ELSE IF d.t = "int" /\ IntOf(d) >= 0
       THEN [raised |-> "none", rules |-> <<ExpirationRule(d)>>]
  ELSE [raised |-> "TypeError", rules |-> rules]

\* mutant: the rule is added to the rules already there
SetExpiration_Appends(rules, d) ==
  IF d = None THEN [raised |-> "none", rules |-> <<>>]
  ELSE IF d.t = "int" /\ IntOf(d) > 0
       THEN [raised |-> "none", rules |-> Append(rules, ExpirationRule(d))]
  ELSE [raised |-> "TypeError", rules |-> rules]

\* _S3Dict.set_expiration(days)
SetExpiration(rules, d) ==
  IF d = None THEN [raised |-> "none", rules |-> <<>>]
  ELSE IF d.t = "int" /\ IntOf(d) > 0
       THEN [raised |-> "none", rules |-> <<ExpirationRule(d)>>]
  ELSE [raised |-> "TypeError", rules |-> rules]

(***************************************************************************)
(* History of the policy's order, kept beside the state for the            *)
(* properties: no operation reads it.                                      *)
(***************************************************************************)
RECURSIVE Remove(_, _)
Remove(q, k) ==
  IF q = <<>> THEN <<>>
  ELSE IF Head(q) = k THEN Remove(Tail(q), k)
  ELSE <<Head(q)>> \o Remove(Tail(q), k)

\* k becomes the entry used last
MoveToEnd(q, k) == Append(Remove(q, k), k)

\* an empty bucket without lifecycle rules, counters at zero (line 100:
\* hits = misses = 0) and callers that have called nothing yet
Unused ==
  /\ bucket = [x \in {} |-> NoValue]
  /\ now = 0
  /\ lifecycle = <<>>
  /\ hits = [w \in Wrappers |-> 0]
  /\ misses = [w \in Wrappers |-> 0]
  /\ called = [w \in Wrappers |-> 0]
  /\ pc = [p \in Callers |-> "idle"]
  /\ op = [p \in Callers |-> NoOp.op]
  /\ wr = [p \in Callers |-> NoOp.wr]
  /\ args = [p \in Callers |-> NoOp.args]
  /\ key = [p \in Callers |-> NoOp.key]
  /\ rd = [p \in Callers |-> NoOp.rd]
  /\ result = [p \in Callers |-> NoOp.result]
  /\ status = [p \in Callers |-> NoOp.status]
  /\ ret = [p \in Callers |-> NoOp.ret]
  /\ evicted = [p \in Callers |-> NoOp.evicted]
  /\ queue = <<>>

\* the wrappers are built, each with its handle on the bucket (line 99), and
\* nothing was called yet
Fresh ==
  /\ built = [w \in Wrappers |-> TRUE]
  /\ Unused

(***************************************************************************)
(* Construction: s3_fifo_cache / s3_lru_cache with a valid maxsize and     *)
(* typed left at its default (False), on an empty bucket without lifecycle *)
(* rules.                                                                  *)
(***************************************************************************)
Init ==
  /\ is_lru \in BOOLEAN
  /\ maxsize \in {Unlimited} \cup {Limit(n) : n \in 1..MaxSize}
  /\ typed = FALSE
  /\ Fresh

(***************************************************************************)
(* MemoizingWrapper: the operations of _s3_cache_wrapper.                  *)
(***************************************************************************)
\* a caller may begin an operation on a wrapper when it runs none: the
\* wrapper has no lock, so what other callers do is no condition
MayBegin(p, w) ==
  /\ p \in Callers
  /\ w \in Wrappers
  /\ built[w]
  /\ pc[p] = "idle"

\* what every operation records when it begins
Begin(p, w, o) ==
  /\ op' = [op EXCEPT ![p] = o]
  /\ wr' = [wr EXCEPT ![p] = w]

\* an operation that is no wrapper call leaves the caller no call's locals
NoCallLocals(p, a) ==
  /\ args' = [args EXCEPT ![p] = a]
  /\ key' = [key EXCEPT ![p] = NoOp.key]
  /\ rd' = [rd EXCEPT ![p] = NoOp.rd]
  /\ result' = [result EXCEPT ![p] = NoOp.result]
  /\ ret' = [ret EXCEPT ![p] = NoOp.ret]
  /\ evicted' = [evicted EXCEPT ![p] = NoOp.evicted]

\* wrapper(*args, **kwds), lines 107-113: derive the key, read the store,
\* return on a hit, count a miss otherwise
Call(p, w, c) ==
  /\ MayBegin(p, w)
  /\ hits[w] + misses[w] < MaxCalls
  /\ Begin(p, w, "call")
  /\ args' = [args EXCEPT ![p] = c]
  /\ result' = [result EXCEPT ![p] = NoValue]
  /\ evicted' = [evicted EXCEPT ![p] = ""]
  /\ LET k == _make_key(c.args, c.kwds, typed)
     IN  IF k.raised # "none"
         THEN /\ status' = [status EXCEPT ![p] = k.raised]
              /\ key' = [key EXCEPT ![p] = ""]
              /\ rd' = [rd EXCEPT ![p] = "none"]
              /\ ret' = [ret EXCEPT ![p] = NoValue]
              /\ UNCHANGED <<pc, bucket, now, hits, misses, called, queue>>
         ELSE \E f \in ReadFaults, t \in NextStamps :
                LET kk == Md5Hex(StrKey(k))
                    touches == is_lru /\ kk \in DOMAIN bucket
                               /\ f \notin {"download", "copy"}
                    g == Get(bucket, kk, f, t)
                IN  /\ kk \notin DOMAIN bucket => f = "none"
                    /\ f = "copy" => is_lru
                    /\ ~touches => t = now
                    /\ key' = [key EXCEPT ![p] = kk]
                    /\ called' = [called EXCEPT ![w] = @ + 1]
                    /\ rd' = [rd EXCEPT ![p] = IF g.absent THEN g.rd ELSE "ok"]
                    /\ bucket' = g.bucket
                    /\ now' = t
                    /\ queue' = IF touches THEN MoveToEnd(queue, kk) ELSE queue
                    /\ IF g.raised # "none"
                       THEN /\ status' = [status EXCEPT ![p] = g.raised]
                            /\ ret' = [ret EXCEPT ![p] = NoValue]
                            /\ UNCHANGED <<pc, hits, misses>>
                       ELSE IF ~g.absent
                       THEN /\ hits' = [hits EXCEPT ![w] = @ + 1]
                            /\ ret' = [ret EXCEPT ![p] = g.value]
                            /\ status' = [status EXCEPT ![p] = "returned"]
                            /\ UNCHANGED <<pc, misses>>
                       ELSE /\ misses' = [misses EXCEPT ![w] = @ + 1]
                            /\ ret' = [ret EXCEPT ![p] = NoValue]
                            /\ status' = [status EXCEPT ![p] = "running"]
                            /\ pc' = [pc EXCEPT ![p] = "invoke"]
                            /\ UNCHANGED hits
  /\ UNCHANGED <<config, lifecycle>>

\* line 114: result = user_function(*args, **kwds), which returns r
InvokeReturns(p, r) ==
  /\ pc[p] = "invoke"
  /\ result' = [result EXCEPT ![p] = r]
  /\ pc' = [pc EXCEPT ![p] = "check"]
  /\ UNCHANGED <<config, store, counters, op, wr, args, key, rd, status, ret,
                 evicted, queue>>

\* line 114: the user function returns one of Results
Invoke(p) == \E r \in Results : InvokeReturns(p, r)

\* mutant: the failure is swallowed and None goes on to be cached
InvokeRaises_Swallowed(p) ==
  /\ pc[p] = "invoke"
  /\ result' = [result EXCEPT ![p] = None]
  /\ pc' = [pc EXCEPT ![p] = "check"]
  /\ UNCHANGED <<config, store, counters, op, wr, args, key, rd, status, ret,
                 evicted, queue>>

\* mutant: the miss is taken back when the user function raises
InvokeRaises_Uncounted(p) ==
  /\ pc[p] = "invoke"
  /\ status' = [status EXCEPT ![p] = "UserError"]
  /\ pc' = [pc EXCEPT ![p] = "idle"]
  /\ misses' = [misses EXCEPT ![wr[p]] = @ - 1]
  /\ UNCHANGED <<config, store, hits, called, op, wr, args, key, rd, result,
                 ret, evicted, queue>>

\* line 114: the user function raises, and the wrapper lets it through
InvokeRaises(p) ==
  /\ pc[p] = "invoke"
  /\ status' = [status EXCEPT ![p] = "UserError"]
  /\ pc' = [pc EXCEPT ![p] = "idle"]
  /\ UNCHANGED <<config, store, counters, op, wr, args, key, rd, result, ret,
                 evicted, queue>>

\* line 115: if isinstance(maxsize, int) and cache_len() >= maxsize
Check(p) ==
  /\ pc[p] = "check"
  /\ pc' = [pc EXCEPT ![p] =
              IF AtCapacity(S3Len(bucket)) THEN "evict" ELSE "put"]
  /\ UNCHANGED <<config, store, counters, op, wr, args, key, rd, result, status,
                 ret, evicted, queue>>

\* line 116: cache.popitem(last=False), _S3Dict.popitem
Evict(p) ==
  /\ pc[p] = "evict"
  /\ IF DOMAIN bucket = {}
     THEN /\ status' = [status EXCEPT ![p] = "KeyError"]
          /\ pc' = [pc EXCEPT ![p] = "idle"]
          /\ UNCHANGED <<bucket, evicted, queue>>
     ELSE \E target \in PopTargets(bucket, EvictLast) :
            /\ bucket' = Without(bucket, target)
            /\ queue' = Remove(queue, target)
            /\ evicted' = [evicted EXCEPT ![p] = target]
            /\ pc' = [pc EXCEPT ![p] = "put"]
            /\ UNCHANGED status
  /\ UNCHANGED <<config, now, lifecycle, counters, op, wr, args, key, rd, result,
                 ret>>

\* lines 117-118: cache[key] = result; return result
Put(p) ==
  /\ pc[p] = "put"
  /\ \E t \in NextStamps :
       LET s == SetItem(bucket, key[p], result[p], t)
       IN  /\ s.raised # "none" => t = now
           /\ bucket' = s.bucket
           /\ now' = t
           /\ queue' = IF s.raised # "none" THEN queue ELSE MoveToEnd(queue, key[p])
           /\ status' = [status EXCEPT ![p] =
                           IF s.raised # "none" THEN s.raised ELSE "returned"]
           /\ ret' = [ret EXCEPT ![p] =
                        IF s.raised # "none" THEN NoValue ELSE result[p]]
  /\ pc' = [pc EXCEPT ![p] = "idle"]
  /\ UNCHANGED <<config, lifecycle, counters, op, wr, args, key, rd, result,
                 evicted>>

\* cache_info(): _CacheInfo(hits, misses, maxsize, cache_len())
cache_info(w) ==
  [hits |-> hits[w], misses |-> misses[w], maxsize |-> maxsize,
   currsize |-> S3Len(bucket)]

\* wrapper.cache_info(): a read of the counters and of the bucket's count
CacheInfo(p, w) ==
  /\ MayBegin(p, w)
  /\ Begin(p, w, "info")
  /\ status' = [status EXCEPT ![p] = "returned"]
  /\ args' = [args EXCEPT ![p] = NoCall]
  /\ key' = [key EXCEPT ![p] = NoOp.key]
  /\ rd' = [rd EXCEPT ![p] = NoOp.rd]
  /\ result' = [result EXCEPT ![p] = NoOp.result]
  /\ evicted' = [evicted EXCEPT ![p] = NoOp.evicted]
  /\ ret' = [ret EXCEPT ![p] = cache_info(w)]
  /\ UNCHANGED <<config, store, counters, pc, queue>>

\* mutant: the counters of every wrapper on the bucket are reset
CacheClear_AllCounters(p, w) ==
  /\ MayBegin(p, w)
  /\ Begin(p, w, "clear")
  /\ bucket' = S3Clear(bucket)
  /\ hits' = [x \in Wrappers |-> 0]
  /\ misses' = [x \in Wrappers |-> 0]
  /\ called' = [x \in Wrappers |-> 0]
  /\ queue' = <<>>
  /\ status' = [status EXCEPT ![p] = "returned"]
  /\ NoCallLocals(p, NoCall)
  /\ UNCHANGED <<config, now, lifecycle, pc>>

\* cache_clear(): cache.clear(); hits = misses = 0
CacheClear(p, w) ==
  /\ MayBegin(p, w)
  /\ Begin(p, w, "clear")
  /\ bucket' = S3Clear(bucket)
  /\ hits' = [hits EXCEPT ![w] = 0]
  /\ misses' = [misses EXCEPT ![w] = 0]
  /\ called' = [called EXCEPT ![w] = 0]
  /\ queue' = <<>>
  /\ status' = [status EXCEPT ![p] = "returned"]
  /\ NoCallLocals(p, NoCall)
  /\ UNCHANGED <<config, now, lifecycle, pc>>

\* cache_set_expiration(days): cache.set_expiration(days)
CacheSetExpiration(p, w, d) ==
  /\ MayBegin(p, w)
  /\ Begin(p, w, "expiration")
  /\ LET e == SetExpiration(lifecycle, d)
     IN  /\ lifecycle' = e.rules
         /\ status' = [status EXCEPT ![p] =
                         IF e.raised # "none" THEN e.raised ELSE "returned"]
  /\ NoCallLocals(p, CallOf(<<d>>, <<>>))
  /\ UNCHANGED <<config, bucket, now, counters, pc, queue>>

\* one caller on one wrapper: every operation runs to its end before the
\* next begins
Next ==
  \/ \E p \in ActiveCallers, w \in ActiveWrappers, c \in CallArgs : Call(p, w, c)
  \/ \E p \in ActiveCallers : Invoke(p)
  \/ \E p \in ActiveCallers : InvokeRaises(p)
  \/ \E p \in ActiveCallers : Check(p)
  \/ \E p \in ActiveCallers : Evict(p)
  \/ \E p \in ActiveCallers : Put(p)
  \/ \E p \in ActiveCallers, w \in ActiveWrappers : CacheClear(p, w)
  \/ \E p \in ActiveCallers, w \in ActiveWrappers, d \in DaysInputs :
        CacheSetExpiration(p, w, d)

Spec == Init /\ [][Next]_vars

(***************************************************************************)
(* Vocabulary of the properties.                                           *)
(***************************************************************************)
\* this step is caller p beginning a wrapper call (a hit or a miss is counted)
CallStep(p) ==
  /\ pc[p] = "idle"
  /\ op'[p] = "call"
  /\ counters' # counters

\* caller p's last operation was a wrapper call that found no object under
\* its key, invoked the user function and stored the result
StoredMiss(p) ==
  /\ pc[p] = "idle"
  /\ op[p] = "call"
  /\ rd[p] = "notfound"
  /\ status[p] = "returned"

\* the value a reader gets back for a stored value v
RoundTrip(v) == Loads(Dumps(v).text)

(***************************************************************************)
(* C1: two calls in sequence with identical arguments, the first finding   *)
(* no object under the key (as on an empty store) and the second reading   *)
(* reliably: the first is a miss that stores the user function's result    *)
(* under the key, the second is a hit (hits + 1, misses unchanged) that    *)
(* returns the stored value decoded and does not invoke the user function. *)
(***************************************************************************)
C1_FirstCallMisses ==
  \A p \in Callers :
    (CallStep(p) /\ key'[p] \notin DOMAIN bucket)
      => /\ misses'[wr'[p]] = misses[wr'[p]] + 1
         /\ hits' = hits
         /\ rd'[p] = "notfound"
         /\ pc'[p] = "invoke"

C1_MissStores ==
  \A p \in Callers :
    StoredMiss(p)
      => /\ key[p] \in DOMAIN bucket
         /\ bucket[key[p]].body = Dumps(result[p]).text
         /\ ret[p] = result[p]

C1_SecondCallHits ==
  \A p \in Callers :
    (StoredMiss(p) /\ CallStep(p) /\ args'[p] = args[p] /\ wr'[p] = wr[p]
       /\ rd'[p] \in {"ok", "notfound"})
      => /\ rd'[p] = "ok"
         /\ hits'[wr[p]] = hits[wr[p]] + 1
         /\ misses' = misses
         /\ ret'[p] = RoundTrip(result[p])
         /\ result'[p] = NoValue
         /\ status'[p] = "returned"
         /\ pc'[p] = "idle"

C1_TwoCallsOneInvocation ==
  /\ []C1_MissStores
  /\ [][C1_FirstCallMisses /\ C1_SecondCallHits]_vars

\* f(a) twice on the empty store: one miss, then one hit, one object stored
C1_Witness ==
  /\ pc["c1"] = "idle"
  /\ op["c1"] = "call"
  /\ rd["c1"] = "ok"
  /\ hits["A"] = 1
  /\ misses["A"] = 1
  /\ S3Len(bucket) = 1
  /\ ret["c1"] = PyList("1, 2")

\* this step is caller p's popitem deleting an object
EvictStep(p) == pc[p] = "evict" /\ pc'[p] = "put"

\* no two objects of the bucket share a modification timestamp
DistinctStamps(b) ==
  \A x, y \in DOMAIN b : x # y => b[x].last_modified # b[y].last_modified

\* the keys of q
Range(q) == {q[i] : i \in 1..Len(q)}

\* k's object has the least modification timestamp in b
Oldest(b, k) == \A x \in DOMAIN b : b[k].last_modified <= b[x].last_modified

\* k's object has the greatest modification timestamp in b
Newest(b, k) == \A x \in DOMAIN b : b[x].last_modified <= b[k].last_modified

(***************************************************************************)
(* C2: with maxsize = N the bucket never holds more than N objects, in     *)
(* any state, the states between an eviction and its put included; no      *)
(* eviction happens in the first N misses after construction or a clear;   *)
(* a miss evicts exactly one object before its put when the count is >= N  *)
(* at its check, and none otherwise; the put adds at most its own key.     *)
(***************************************************************************)
C2_Bounded ==
  /\ maxsize.int => S3Len(bucket) <= maxsize.n
  /\ \A p \in Callers :
       /\ (maxsize.int /\ pc[p] = "put") => S3Len(bucket) < maxsize.n
       /\ (pc[p] = "evict" \/ evicted[p] # "")
            => (maxsize.int /\ misses[wr[p]] > maxsize.n)

C2_EvictionRule ==
  \A p \in Callers :
    /\ (pc[p] = "check" /\ pc'[p] # "check")
         => /\ bucket' = bucket
            /\ evicted'[p] = ""
            /\ pc'[p] = IF maxsize.int /\ S3Len(bucket) >= maxsize.n
                        THEN "evict" ELSE "put"
    /\ (pc[p] = "evict" /\ pc'[p] # "evict")
         => /\ pc'[p] = "put"
            /\ evicted'[p] \in DOMAIN bucket
            /\ DOMAIN bucket' = DOMAIN bucket \ {evicted'[p]}
            /\ \A x \in DOMAIN bucket' : bucket'[x] = bucket[x]
    /\ (pc[p] = "put" /\ pc'[p] # "put")
         => /\ pc'[p] = "idle"
            /\ evicted'[p] = evicted[p]
            /\ DOMAIN bucket' \in {DOMAIN bucket, DOMAIN bucket \cup {key[p]}}

C2_SizeBound == []C2_Bounded /\ [][C2_EvictionRule]_vars

\* three distinct keys went into a cache of two: the third miss evicted one
C2_Witness ==
  /\ maxsize = Limit(2)
  /\ pc["c1"] = "idle"
  /\ status["c1"] = "returned"
  /\ hits["A"] = 0
  /\ misses["A"] = 3
  /\ evicted["c1"] # ""
  /\ S3Len(bucket) = 2

(***************************************************************************)
(* C3: FIFO policy.  A hit changes nothing in the bucket, and whenever a   *)
(* miss evicts while the objects' timestamps are pairwise distinct, the    *)
(* object deleted is the one written earliest among those present,         *)
(* whatever hits happened since.                                           *)
(***************************************************************************)
C3_QueueIsResidents ==
  /\ Range(queue) = DOMAIN bucket
  /\ Len(queue) = Cardinality(DOMAIN bucket)

C3_FifoStep ==
  \A p \in Callers :
    /\ (~is_lru /\ CallStep(p) /\ rd'[p] = "ok") => bucket' = bucket
    /\ (~is_lru /\ EvictStep(p) /\ DistinctStamps(bucket))
         => evicted'[p] = Head(queue)

C3_FifoEvictsEarliest == []C3_QueueIsResidents /\ [][C3_FifoStep]_vars

\* FIFO, maxsize=2: f(1), f(2), f(3) once each; f(1)'s entry is gone
C3_Witness ==
  /\ ~is_lru
  /\ maxsize = Limit(2)
  /\ pc["c1"] = "idle"
  /\ hits["A"] = 0
  /\ misses["A"] = 3
  /\ cache_info("A").currsize = 2
  /\ evicted["c1"] = KeyOf(CallOf(<<PyInt("1")>>, <<>>), typed)
  /\ queue = <<KeyOf(CallOf(<<PyInt("2")>>, <<>>), typed),
               KeyOf(CallOf(<<PyInt("3")>>, <<>>), typed)>>
  /\ DOMAIN bucket = Range(queue)

(***************************************************************************)
(* C4: LRU policy.  A hit refreshes the modification timestamp of the      *)
(* entry read, to a value no other entry exceeds, and changes nothing      *)
(* else; whenever a miss then evicts while the timestamps are pairwise     *)
(* distinct, the object deleted is the one least recently written or read, *)
(* so with two or more entries never the one read or written last.         *)
(***************************************************************************)
C4_LruStep ==
  \A p \in Callers :
    /\ (is_lru /\ CallStep(p) /\ rd'[p] = "ok")
         => /\ DOMAIN bucket' = DOMAIN bucket
            /\ bucket'[key'[p]] = [bucket[key'[p]] EXCEPT !.last_modified = now']
            /\ \A x \in DOMAIN bucket \ {key'[p]} : bucket'[x] = bucket[x]
            /\ Newest(bucket', key'[p])
            /\ (DistinctStamps(bucket') /\ S3Len(bucket) >= 2) => ~Oldest(bucket', key'[p])
    /\ (is_lru /\ EvictStep(p) /\ DistinctStamps(bucket))
         => /\ evicted'[p] = Head(queue)
            /\ Len(queue) >= 2 => evicted'[p] # queue[Len(queue)]

C4_LruHitProtects == [][C4_LruStep]_vars

\* LRU, maxsize=2: the entry written first was read, and the miss that
\* followed deleted the other one
C4_Witness ==
  /\ is_lru
  /\ maxsize = Limit(2)
  /\ pc["c1"] = "idle"
  /\ hits["A"] = 1
  /\ misses["A"] = 3
  /\ evicted["c1"] # ""
  /\ \E k \in DOMAIN bucket :
       /\ bucket[k].created < bucket[k].last_modified
       /\ \A x \in DOMAIN bucket : bucket[k].created <= bucket[x].created

(***************************************************************************)
(* C5 as stated: under LRU a miss at capacity deletes the object with the  *)
(* greatest modification timestamp, under FIFO the one with the least.     *)
(***************************************************************************)
C5_DirectionByPolicy ==
  [][\A p \in Callers :
       EvictStep(p) => IF is_lru THEN Newest(bucket, evicted'[p])
                       ELSE Oldest(bucket, evicted'[p])]_vars

(***************************************************************************)
(* C5 amended: under both policies a miss at capacity deletes an object    *)
(* with the least modification timestamp (popitem is always asked for      *)
(* last=False); the policies differ only in whether a read refreshes the   *)
(* timestamp.                                                              *)
(***************************************************************************)
C5_AlwaysOldest ==
  [][\A p \in Callers :
       /\ EvictStep(p) => Oldest(bucket, evicted'[p])
       /\ (CallStep(p) /\ rd'[p] = "ok")
            => bucket'[key'[p]].last_modified =
                 IF is_lru THEN now' ELSE bucket[key'[p]].last_modified]_vars

\* LRU: a miss deleted one of two objects, and the one left is older than
\* its last read
C5_Witness ==
  /\ is_lru
  /\ evicted["c1"] # ""
  /\ pc["c1"] = "put"
  /\ \E k \in DOMAIN bucket : bucket[k].created < bucket[k].last_modified

\* this step is caller p's wrapper call counting a miss
MissStep(p) == CallStep(p) /\ pc'[p] = "invoke"

\* this step is caller p's user function raising
RaiseStep(p) == pc[p] = "invoke" /\ pc'[p] = "idle"

\* this step is caller p calling cache_set_expiration
ExpirationStep(p) == pc[p] = "idle" /\ op'[p] = "expiration"

\* b1 holds the same keys with the same bodies and metadata as b
SameEntries(b, b1) ==
  /\ DOMAIN b1 = DOMAIN b
  /\ \A x \in DOMAIN b : b1[x].body = b[x].body /\ b1[x].created = b[x].created

(***************************************************************************)
(* C6: once cache_clear() has returned, cache_info() reports currsize 0,   *)
(* hits 0 and misses 0; no operation changes maxsize; and the next wrapper *)
(* call, whatever its arguments, finds nothing under its key, counts the   *)
(* first miss and goes on to invoke the user function.                     *)
(***************************************************************************)
C6_Cleared ==
  \A p \in Callers :
    (pc[p] = "idle" /\ op[p] = "clear")
      => /\ cache_info(wr[p]).currsize = 0
         /\ cache_info(wr[p]).hits = 0
         /\ cache_info(wr[p]).misses = 0
         /\ status[p] = "returned"

C6_AfterClearStep ==
  /\ cache_info("A").maxsize' = cache_info("A").maxsize
  /\ \A p \in Callers :
       (op[p] = "clear" /\ CallStep(p) /\ wr'[p] = wr[p])
         => /\ rd'[p] = "notfound"
            /\ pc'[p] = "invoke"
            /\ misses'[wr[p]] = 1
            /\ hits'[wr[p]] = 0

C6_ClearResets == []C6_Cleared /\ [][C6_AfterClearStep]_vars

\* after earlier writes the cache was cleared, and the call that followed
\* missed and invoked the user function
C6_Witness ==
  /\ pc["c1"] = "check"
  /\ now >= 1
  /\ DOMAIN bucket = {}
  /\ misses["A"] = 1
  /\ hits["A"] = 0
  /\ result["c1"] \in Results

(***************************************************************************)
(* C7 as stated: when the user function fails on a miss, misses has gone   *)
(* up by one and hits is unchanged, the call has evicted nothing and put   *)
(* nothing, and a later call with the same arguments is again a miss.      *)
(***************************************************************************)
C7_LaterCallMissesAgain ==
  [][\A p \in Callers :
       /\ MissStep(p)
            => /\ misses'[wr'[p]] = misses[wr'[p]] + 1
               /\ hits' = hits
               /\ SameEntries(bucket, bucket')
       /\ RaiseStep(p)
            => /\ status'[p] = "UserError"
               /\ store' = store
               /\ counters' = counters
       /\ (status[p] = "UserError" /\ CallStep(p) /\ args'[p] = args[p])
            => MissStep(p)]_vars

(***************************************************************************)
(* C7 amended: when the user function fails on a miss, the failure goes to *)
(* the caller, misses has gone up by one and hits is unchanged, and the    *)
(* call evicts nothing and puts nothing, even at capacity: the objects and *)
(* their bodies are as before, only a value the user function returned is  *)
(* ever put, and the timestamps are as before except that under LRU a read *)
(* that failed at decoding has refreshed the timestamp of the object read. *)
(* If the miss found no object under the key, the next call with the same  *)
(* arguments finds none either and is again a miss that invokes the user   *)
(* function; after a miss that came from a failed read of a stored entry,  *)
(* the entry is still stored.                                              *)
(***************************************************************************)
C7_OnlyResultsArePut ==
  \A p \in Callers : pc[p] \in {"check", "evict", "put"} => result[p] \in Results

C7_FailedCallStep ==
  \A p \in Callers :
    /\ MissStep(p)
         => /\ misses'[wr'[p]] = misses[wr'[p]] + 1
            /\ hits' = hits
            /\ evicted'[p] = ""
            /\ SameEntries(bucket, bucket')
            /\ ~(is_lru /\ rd'[p] = "decode") => bucket' = bucket
            /\ \A x \in DOMAIN bucket \ {key'[p]} : bucket'[x] = bucket[x]
    /\ RaiseStep(p)
         => /\ status'[p] = "UserError"
            /\ store' = store
            /\ counters' = counters
            /\ evicted'[p] = ""
    /\ (status[p] = "UserError" /\ rd[p] = "notfound" /\ CallStep(p)
          /\ args'[p] = args[p])
         => /\ MissStep(p)
            /\ rd'[p] = "notfound"
    /\ (status[p] = "UserError" /\ rd[p] # "notfound" /\ pc[p] = "idle")
         => key[p] \in DOMAIN bucket

C7_FailureNotCached == []C7_OnlyResultsArePut /\ [][C7_FailedCallStep]_vars

\* the user function failed on a miss at capacity: nothing evicted, nothing put
C7_Witness ==
  /\ pc["c1"] = "idle"
  /\ status["c1"] = "UserError"
  /\ rd["c1"] = "notfound"
  /\ maxsize.int
  /\ S3Len(bucket) = maxsize.n
  /\ evicted["c1"] = ""
  /\ key["c1"] \notin DOMAIN bucket

(***************************************************************************)
(* C8: a failed read (download error, object not found, failed LRU copy,   *)
(* JSON decode error) is never raised to the caller: the call counts a     *)
(* miss (misses + 1, hits unchanged) and goes on to the user function, and *)
(* when it returns it has written the result under the key, after an       *)
(* eviction if the count was >= maxsize, and returned it.                  *)
(***************************************************************************)
ReadFailures == {"notfound", "download", "copy", "decode"}

C8_NeverRaised ==
  \A p \in Callers :
    /\ status[p] \notin ReadFailures
    /\ (pc[p] = "idle" /\ op[p] = "call" /\ status[p] = "returned"
          /\ rd[p] \in ReadFailures)
         => /\ key[p] \in DOMAIN bucket
            /\ bucket[key[p]].body = Dumps(result[p]).text
            /\ ret[p] = result[p]
            /\ result[p] \in Results

C8_FailedReadStep ==
  \A p \in Callers :
    /\ (CallStep(p) /\ rd'[p] \in ReadFailures)
         => /\ status'[p] = "running"
            /\ pc'[p] = "invoke"
            /\ misses'[wr'[p]] = misses[wr'[p]] + 1
            /\ hits' = hits
    /\ (rd[p] \in ReadFailures /\ pc[p] = "check" /\ pc'[p] # "check")
         => (pc'[p] = "evict") = (maxsize.int /\ S3Len(bucket) >= maxsize.n)
    /\ (rd[p] \in ReadFailures /\ pc[p] = "evict" /\ pc'[p] # "evict")
         => pc'[p] = "put" /\ S3Len(bucket') = S3Len(bucket) - 1

C8_ReadFailureIsMiss == []C8_NeverRaised /\ [][C8_FailedReadStep]_vars

\* a read failed at decoding, at capacity: the call evicted, put and returned
C8_Witness ==
  /\ pc["c1"] = "idle"
  /\ rd["c1"] = "decode"
  /\ status["c1"] = "returned"
  /\ evicted["c1"] # ""
  /\ key["c1"] \in DOMAIN bucket

(***************************************************************************)
(* C9: the bucket never has more than one expiration rule;                 *)
(* cache_set_expiration(d) with a positive integer d leaves exactly the    *)
(* rule "Expire after d days", cache_set_expiration(None) leaves no rule,  *)
(* and neither changes the stored objects or the counters.                 *)
(***************************************************************************)
C9_AtMostOneRule == Len(lifecycle) <= 1

C9_ExpirationStep ==
  \A p \in Callers :
    ExpirationStep(p) =>
      LET d == args'[p].args[1]
      IN  /\ d = None
               => lifecycle' = <<>> /\ status'[p] = "returned"
          /\ (d.t = "int" /\ IntOf(d) > 0)
               => /\ lifecycle' = <<[Days |-> IntOf(d), Prefix |-> "",
                                     ID |-> "Expire after " \o d.lit \o " days",
                                     Status |-> "Enabled"]>>
                  /\ status'[p] = "returned"
          /\ (d = None \/ (d.t = "int" /\ IntOf(d) > 0))
               => bucket' = bucket /\ counters' = counters

C9_OneRuleReplaced == []C9_AtMostOneRule /\ [][C9_ExpirationStep]_vars

\* a 30-day rule is in force on a bucket in use
C9_Witness ==
  /\ op["c1"] = "expiration"
  /\ args["c1"].args = <<PyInt("30")>>
  /\ lifecycle = <<ExpirationRule(PyInt("30"))>>
  /\ lifecycle[1].ID = "Expire after 30 days"
  /\ S3Len(bucket) = 2
  /\ hits["A"] = 1

(***************************************************************************)
(* C10: cache_set_expiration(days) with days neither None nor a positive   *)
(* integer raises TypeError and leaves the expiration rule, the stored     *)
(* objects and the counters as they were.                                  *)
(***************************************************************************)
C10_InvalidDaysRejected ==
  [][\A p \in Callers :
       ExpirationStep(p) =>
         LET d == args'[p].args[1]
         IN  (d # None /\ ~(d.t = "int" /\ IntOf(d) > 0))
               => /\ status'[p] = "TypeError"
                  /\ lifecycle' = lifecycle
                  /\ bucket' = bucket
                  /\ counters' = counters]_vars

\* cache_set_expiration(0) was refused while a rule was in force
C10_Witness ==
  /\ op["c1"] = "expiration"
  /\ args["c1"].args = <<PyInt("0")>>
  /\ status["c1"] = "TypeError"
  /\ lifecycle = <<ExpirationRule(PyInt("1"))>>
  /\ S3Len(bucket) = 1

(***************************************************************************)
(* Key derivation by argument type: wrappers built with typed true or      *)
(* false, called with 1, 1.0 and '1', and with a list given positionally   *)
(* or as a keyword value.                                                  *)
(***************************************************************************)
\* f(1), f(1.0), f('1')
TypedCallArgs ==
  { CallOf(<<PyInt("1")>>, <<>>),
    CallOf(<<PyFloat("1.0")>>, <<>>),
    CallOf(<<PyStr("1")>>, <<>>) }

\* f([1]), f(x=[1])
UnhashableCallArgs ==
  { CallOf(<<PyList("1")>>, <<>>),
    CallOf(<<>>, << <<"x", PyList("1")>> >>) }

InitKeys ==
  /\ is_lru \in BOOLEAN
  /\ maxsize \in {Unlimited, Limit(MaxSize)}
  /\ typed \in BOOLEAN
  /\ Fresh

NextKeys ==
  \/ \E p \in ActiveCallers, w \in ActiveWrappers,
         c \in TypedCallArgs \cup UnhashableCallArgs : Call(p, w, c)
  \/ \E p \in ActiveCallers : Invoke(p)
  \/ \E p \in ActiveCallers : Check(p)
  \/ \E p \in ActiveCallers : Evict(p)
  \/ \E p \in ActiveCallers : Put(p)

SpecKeys == InitKeys /\ [][NextKeys]_vars

(***************************************************************************)
(* C11: with typed true, f(1), f(1.0) and f('1') have pairwise distinct    *)
(* keys, so a call never reads the entry of another of them and each gets  *)
(* an entry of its own; with typed false, f(1) and f('1') have the same    *)
(* key (f(1.0) has another), so after one of them missed and stored, a     *)
(* call of the other that reads reliably is a hit returning the value the  *)
(* first call stored.                                                      *)
(***************************************************************************)
IntOrStr == { CallOf(<<PyInt("1")>>, <<>>), CallOf(<<PyStr("1")>>, <<>>) }

C11_OwnEntries ==
  typed => \A k \in DOMAIN bucket :
             Cardinality({c \in TypedCallArgs : KeyOf(c, typed) = k}) = 1

C11_KeyStep ==
  \A p \in Callers :
    /\ (CallStep(p) /\ op[p] = "call" /\ key[p] # "" /\ args'[p] # args[p])
         => (key'[p] = key[p])
              = (~typed /\ args[p] \in IntOrStr /\ args'[p] \in IntOrStr)
    /\ (typed /\ StoredMiss(p) /\ CallStep(p) /\ args'[p] # args[p]
          /\ DOMAIN bucket = {key[p]})
         => /\ rd'[p] = "notfound"
            /\ misses'[wr'[p]] = misses[wr'[p]] + 1
    /\ (~typed /\ StoredMiss(p) /\ CallStep(p) /\ args'[p] # args[p]
          /\ args[p] \in IntOrStr /\ args'[p] \in IntOrStr
          /\ rd'[p] \in {"ok", "notfound"})
         => /\ rd'[p] = "ok"
            /\ hits'[wr[p]] = hits[wr[p]] + 1
            /\ misses' = misses
            /\ ret'[p] = RoundTrip(result[p])
            /\ pc'[p] = "idle"

C11_TypedKeys == []C11_OwnEntries /\ [][C11_KeyStep]_vars

\* typed false: f('1') right after f(1) (or the reverse) was a hit on the
\* one entry there is
C11_Witness ==
  /\ ~typed
  /\ pc["c1"] = "idle"
  /\ args["c1"] = CallOf(<<PyStr("1")>>, <<>>)
  /\ rd["c1"] = "ok"
  /\ ret["c1"] = PyList("1, 2")
  /\ hits["A"] = 1
  /\ misses["A"] = 1
  /\ DOMAIN bucket = {KeyOf(CallOf(<<PyInt("1")>>, <<>>), FALSE)}

(***************************************************************************)
(* Construction: _s3_cache(maxsize, typed, bucket_name, is_lru), reached   *)
(* through s3_fifo_cache and s3_lru_cache, and the wrapper it builds.      *)
(***************************************************************************)
PyBool(b) == [t |-> "bool", lit |-> IF b THEN "True" ELSE "False"]

\* a function given where maxsize is expected: @s3_fifo_cache without call
UserFunction == [t |-> "function", lit |-> "f"]

\* the maxsize the decorator uses when it is applied to a function directly
DefaultMaxsize == 128

\* the maxsize arguments the constructions of the model are given
MaxsizeInputs ==
  { None, PyInt("1"), PyInt("2"), PyInt("0"), PyInt("-1"), PyFloat("1.5"),
    UserFunction }

\* callable(v)
Callable(v) == v.t = "function"

\* the wrapper's maxsize for a valid maxsize argument
MaxsizeOf(m) == IF m = None THEN Unlimited ELSE Limit(IntOf(m))

\* mutant: zero and negative sizes pass the check
_s3_cache_AnyInt(m, t) ==
  IF Callable(m) /\ t.t = "bool"
  THEN [raised |-> "none", maxsize |-> Limit(DefaultMaxsize), typed |-> t]
  ELSE IF m = None \/ m.t = "int"
  THEN [raised |-> "none", maxsize |-> MaxsizeOf(m), typed |-> t]
  ELSE [raised |-> "TypeError", maxsize |-> Unlimited, typed |-> t]

\* _s3_cache(maxsize, typed, ...), lines 75-84: the parameters of the
\* wrapper it goes on to build, or the TypeError it raises before building
_s3_cache(m, t) ==
  IF Callable(m) /\ t.t = "bool"
  THEN [raised |-> "none", maxsize |-> Limit(DefaultMaxsize), typed |-> t]
  ELSE IF m = None \/ (m.t = "int" /\ IntOf(m) > 0)
  THEN [raised |-> "none", maxsize |-> MaxsizeOf(m), typed |-> t]
  ELSE [raised |-> "TypeError", maxsize |-> Unlimited, typed |-> t]

\* wrapper.cache_parameters()
cache_parameters(w) == [maxsize |-> maxsize, typed |-> typed]

\* caller p builds wrapper w: s3_lru_cache(m, t) when lru, s3_fifo_cache(m, t)
\* otherwise, applied to the user function.  _s3_cache_wrapper creates the
\* bucket handle (line 99) and the counters (line 100); its own test of
\* maxsize (line 103) passes for every maxsize _s3_cache lets through
Construct(p, w, lru, m, t) ==
  /\ p \in Callers
  /\ w \in Wrappers
  /\ pc[p] = "idle"
  /\ ~built[w]
  /\ Begin(p, w, "construct")
  /\ NoCallLocals(p, CallOf(<<m, t>>, <<>>))
  /\ LET c == _s3_cache(m, t)
     IN  IF c.raised # "none"
         THEN /\ status' = [status EXCEPT ![p] = c.raised]
              /\ UNCHANGED <<config, counters>>
         ELSE /\ status' = [status EXCEPT ![p] = "returned"]
              /\ is_lru' = lru
              /\ maxsize' = c.maxsize
              /\ typed' = (c.typed = PyBool(TRUE))
              /\ built' = [built EXCEPT ![w] = TRUE]
              /\ hits' = [hits EXCEPT ![w] = 0]
              /\ misses' = [misses EXCEPT ![w] = 0]
              /\ called' = [called EXCEPT ![w] = 0]
  /\ UNCHANGED <<store, pc, queue>>

\* no wrapper is built yet; the bucket is empty
InitConstruct ==
  /\ is_lru = FALSE
  /\ maxsize = Unlimited
  /\ typed = FALSE
  /\ built = [w \in Wrappers |-> FALSE]
  /\ Unused

NextConstruct ==
  \/ \E p \in ActiveCallers, w \in ActiveWrappers, lru \in BOOLEAN,
         m \in MaxsizeInputs, t \in BOOLEAN : Construct(p, w, lru, m, PyBool(t))
  \/ \E p \in ActiveCallers, w \in ActiveWrappers, c \in CallArgs : Call(p, w, c)
  \/ \E p \in ActiveCallers : Invoke(p)
  \/ \E p \in ActiveCallers : Check(p)
  \/ \E p \in ActiveCallers : Evict(p)
  \/ \E p \in ActiveCallers : Put(p)

SpecConstruct == InitConstruct /\ [][NextConstruct]_vars

\* this step is caller p constructing (or failing to construct) a wrapper
ConstructStep(p) == pc[p] = "idle" /\ op'[p] = "construct"

\* v is a maxsize the constructors accept as a size
ValidSize(v) == v = None \/ (v.t = "int" /\ v.lit \notin {"0", "-1"})

(***************************************************************************)
(* C12: constructing a cache (FIFO or LRU) with a maxsize that is neither  *)
(* None, a positive integer nor a callable raises TypeError and builds     *)
(* nothing: no wrapper, no bucket handle, the bucket untouched.  With a    *)
(* valid maxsize, cache_parameters() and cache_info().maxsize report the   *)
(* maxsize and typed given, for as long as the wrapper is used; applied to *)
(* a function directly, maxsize is 128 and typed is the default, false.    *)
(***************************************************************************)
C12_ConstructStep ==
  \A p \in Callers, w \in Wrappers :
    /\ (ConstructStep(p) /\ wr'[p] = w) =>
         LET m == args'[p].args[1]
             t == args'[p].args[2]
         IN  /\ (~ValidSize(m) /\ ~Callable(m))
                  => /\ status'[p] = "TypeError"
                     /\ built' = built
                     /\ ~built'[w]
                     /\ store' = store
                     /\ counters' = counters
             /\ ValidSize(m)
                  => /\ status'[p] = "returned"
                     /\ built'[w]
                     /\ is_lru' \in BOOLEAN
                     /\ cache_parameters(w)' =
                          [maxsize |-> IF m = None THEN Unlimited
                                       ELSE Limit(IntOf(m)),
                           typed |-> t = PyBool(TRUE)]
                     /\ cache_info(w)'.maxsize = cache_parameters(w)'.maxsize
                     /\ cache_info(w)'.hits = 0 /\ cache_info(w)'.misses = 0
             /\ Callable(m)
                  => /\ status'[p] = "returned"
                     /\ built'[w]
                     /\ cache_parameters(w)'.maxsize = Limit(128)
                     /\ cache_info(w)'.maxsize = Limit(128)
                     /\ cache_parameters(w)'.typed = (t = PyBool(TRUE))
                     /\ t = PyBool(FALSE) => ~cache_parameters(w)'.typed
    /\ built[w]
         => /\ cache_parameters(w)' = cache_parameters(w)
            /\ cache_info(w)'.maxsize = cache_info(w).maxsize

C12_ConstructionValidated == [][C12_ConstructStep]_vars

\* s3_fifo_cache(0) was refused: nothing is built, the bucket is untouched
C12_Witness ==
  /\ op["c1"] = "construct"
  /\ args["c1"].args[1] = PyInt("0")
  /\ status["c1"] = "TypeError"
  /\ ~built["A"]
  /\ DOMAIN bucket = {}

(***************************************************************************)
(* Two wrappers on one bucket: A and B are built with the same bucket      *)
(* name, and one caller uses both, one operation after the other.          *)
(***************************************************************************)
\* the wrapper calls counted by w since its construction or last clear
Calls(w) == hits[w] + misses[w]

\* the expiration arguments used on the shared bucket
SharedDays == { None, PyInt("1") }

\* the calls made through either wrapper: f(1), f(2)
SharedCallArgs ==
  { CallOf(<<PyInt("1")>>, <<>>), CallOf(<<PyInt("2")>>, <<>>) }

InitShared ==
  /\ is_lru \in BOOLEAN
  /\ maxsize = Limit(1)
  /\ typed = FALSE
  /\ Fresh

NextShared ==
  \/ \E p \in ActiveCallers, w \in Wrappers, c \in SharedCallArgs :
        /\ Calls("A") + Calls("B") < MaxCalls
        /\ Call(p, w, c)
  \/ \E p \in ActiveCallers : Invoke(p)
  \/ \E p \in ActiveCallers : Check(p)
  \/ \E p \in ActiveCallers : Evict(p)
  \/ \E p \in ActiveCallers : Put(p)
  \/ \E p \in ActiveCallers, w \in Wrappers : CacheInfo(p, w)
  \/ \E p \in ActiveCallers, w \in Wrappers : CacheClear(p, w)
  \/ \E p \in ActiveCallers, w \in Wrappers, d \in SharedDays :
        CacheSetExpiration(p, w, d)

SpecShared == InitShared /\ [][NextShared]_vars

\* this step is caller p calling cache_clear
ClearStep(p) == pc[p] = "idle" /\ op'[p] = "clear"

(***************************************************************************)
(* C13: two wrappers on the same bucket count separately.  No step of an   *)
(* operation on one wrapper (a call, cache_clear, cache_info,              *)
(* cache_set_expiration) changes the other's hits or misses;               *)
(* A.cache_clear() sets A's counters to zero and leaves B's, and it        *)
(* deletes every object of the bucket, so B.cache_info() reports currsize  *)
(* 0 too.                                                                  *)
(***************************************************************************)
C13_CounterStep ==
  \A p \in ActiveCallers, w \in Wrappers :
    /\ wr'[p] # w => hits'[w] = hits[w] /\ misses'[w] = misses[w]
    /\ (ClearStep(p) /\ wr'[p] # w)
         => /\ hits'[wr'[p]] = 0
            /\ misses'[wr'[p]] = 0
            /\ cache_info(w)'.hits = cache_info(w).hits
            /\ cache_info(w)'.misses = cache_info(w).misses
            /\ cache_info(w)'.currsize = 0
            /\ DOMAIN bucket' = {}

C13_IndependentCounters == [][C13_CounterStep]_vars

\* A was cleared: B keeps the hit and the miss it counted, and reports an
\* empty store
C13_Witness ==
  /\ op["c1"] = "clear"
  /\ wr["c1"] = "A"
  /\ now >= 1
  /\ cache_info("A").hits = 0
  /\ cache_info("A").misses = 0
  /\ cache_info("B").hits = 1
  /\ cache_info("B").misses = 1
  /\ cache_info("B").currsize = 0

(***************************************************************************)
(* Concurrent callers: two threads call one wrapper without a lock.  Each  *)
(* thread's first call may overlap the other's; the calls after them are   *)
(* made by one thread, one at a time.  A thread can be suspended at every  *)
(* access to the bucket: after its get, its count, its popitem.            *)
(***************************************************************************)
\* what the user function returns to the racing callers: two values JSON
\* can encode, so that the writer of a stored object can be told
RaceResults == { PyTuple("1, 2"), PyInt("7") }

\* p's first call: it begins whatever the other caller is doing
RaceCall(p, w, c) ==
  /\ op[p] = "none"
  /\ Call(p, w, c)

\* a later call: it begins when every caller has returned from its first
LaterCall(p, w, c) ==
  /\ \A q \in Callers : pc[q] = "idle" /\ op[q] = "call"
  /\ Calls(w) < Cardinality(Callers) + MaxLater
  /\ Call(p, w, c)

InitRace ==
  /\ is_lru \in BOOLEAN
  /\ maxsize \in {Limit(n) : n \in 1..MaxSize}
  /\ typed = FALSE
  /\ Fresh

NextRace ==
  \/ \E p \in Callers, w \in ActiveWrappers, c \in CallArgs : RaceCall(p, w, c)
  \/ \E p \in ActiveCallers, w \in ActiveWrappers, c \in CallArgs :
        LaterCall(p, w, c)
  \/ \E p \in Callers, r \in RaceResults : InvokeReturns(p, r)
  \/ \E p \in Callers : Check(p)
  \/ \E p \in Callers : Evict(p)
  \/ \E p \in Callers : Put(p)

SpecRace == InitRace /\ [][NextRace]_vars

\* this step is caller p's put, and it succeeds
PutStep(p) == pc[p] = "put" /\ pc'[p] = "idle" /\ status'[p] = "returned"

\* both callers have returned from calls with the same arguments that both
\* found nothing under the key, and no other call was made
BothMissed ==
  /\ \A p \in Callers :
       /\ pc[p] = "idle"
       /\ op[p] = "call"
       /\ rd[p] = "notfound"
       /\ status[p] = "returned"
  /\ args["c1"] = args["c2"]
  /\ Calls("A") = 2

(***************************************************************************)
(* C14: two callers call one wrapper with the same arguments on the empty  *)
(* store, and both gets find nothing before either put: both count a miss  *)
(* (misses 2, hits 0), both invoke the user function and both put.  Every  *)
(* put replaces what is stored under its key, so afterwards the bucket     *)
(* holds exactly one object, under the common key, with the value of the   *)
(* put made last, and currsize is 1.                                       *)
(***************************************************************************)
C14_AfterRace ==
  BothMissed
    => /\ cache_info("A").misses = 2
       /\ cache_info("A").hits = 0
       /\ cache_info("A").currsize = 1
       /\ DOMAIN bucket = {key["c1"]}
       /\ key["c2"] = key["c1"]
       /\ \A p \in Callers : result[p] \in RaceResults /\ ret[p] = result[p]
       /\ \E p \in Callers : bucket[key[p]].body = Dumps(result[p]).text

C14_PutStep ==
  \A p \in Callers :
    PutStep(p)
      => /\ DOMAIN bucket' = DOMAIN bucket \cup {key[p]}
         /\ bucket'[key[p]].body = Dumps(result[p]).text
         /\ bucket'[key[p]].last_modified = now'
         /\ \A x \in DOMAIN bucket \ {key[p]} : bucket'[x] = bucket[x]

C14_LastWriteWins == []C14_AfterRace /\ [][C14_PutStep]_vars

\* both missed f(1) on the empty store; c1 got (1, 2) and c2 got 7 from the
\* user function, c2 put last and its value is the one stored
C14_Witness ==
  /\ BothMissed
  /\ args["c1"] = CallOf(<<PyInt("1")>>, <<>>)
  /\ result["c1"] = PyTuple("1, 2")
  /\ result["c2"] = PyInt("7")
  /\ S3Len(bucket) = 1
  /\ bucket[key["c2"]].body = "7"
  /\ evicted["c1"] = "" /\ evicted["c2"] = ""

\* the concurrent calls have completed and the calls made after them, all
\* misses, the last one on a key that was not stored, have returned
SequentialMissesDone ==
  /\ \A p \in Callers :
       pc[p] = "idle" /\ op[p] = "call" /\ status[p] = "returned"
  /\ Calls("A") = Cardinality(Callers) + MaxLater
  /\ cache_info("A").hits = 0
  /\ rd["c1"] = "notfound"

(***************************************************************************)
(* C15 as stated: with concurrent callers and maxsize = N the race between *)
(* count, eviction and put can leave more than N objects, but only         *)
(* transiently: once the concurrent calls have completed, the sequential   *)
(* misses on new keys that follow leave at most N objects.                 *)
(***************************************************************************)
C15_BackWithinCapacity ==
  SequentialMissesDone => cache_info("A").currsize <= maxsize.n

\* this step is caller p calling the wrapper with a list among the arguments
UnhashableCallStep(p) ==
  /\ pc[p] = "idle"
  /\ op'[p] = "call"
  /\ args'[p] \in UnhashableCallArgs

(***************************************************************************)
(* C16 as stated: a call with an unhashable argument (a list, positional   *)
(* or keyword value) is not rejected during key derivation: a key is       *)
(* derived, the store is consulted, a miss is counted and the user         *)
(* function is invoked.                                                    *)
(***************************************************************************)
C16_NotRejected ==
  [][\A p \in Callers :
       UnhashableCallStep(p)
         => /\ key'[p] # ""
            /\ rd'[p] # "none"
            /\ status'[p] # "TypeError"
            /\ (rd'[p] # "ok") => /\ misses'[wr'[p]] = misses[wr'[p]] + 1
                                   /\ pc'[p] = "invoke"]_vars

(***************************************************************************)
(* C16 amended: a call with an unhashable argument (a list, positional or  *)
(* keyword value) is rejected during key derivation, typed or not:         *)
(* _HashedSeq hashes the key tuple, which raises TypeError.  No key is     *)
(* derived, the store is not consulted, neither counter changes, the user  *)
(* function is not invoked and nothing is stored.                          *)
(***************************************************************************)
C16_RejectedAtKey ==
  [][\A p \in Callers :
       UnhashableCallStep(p)
         => /\ status'[p] = "TypeError"
            /\ key'[p] = ""
            /\ rd'[p] = "none"
            /\ pc'[p] = "idle"
            /\ result'[p] = NoValue
            /\ ret'[p] = NoValue
            /\ counters' = counters
            /\ store' = store]_vars

\* f(x=[1]) was rejected on a wrapper in use
C16_Witness ==
  /\ pc["c1"] = "idle"
  /\ op["c1"] = "call"
  /\ args["c1"] = CallOf(<<>>, << <<"x", PyList("1")>> >>)
  /\ status["c1"] = "TypeError"
  /\ key["c1"] = ""
  /\ cache_info("A").misses = 2
  /\ cache_info("A").currsize = 2

(***************************************************************************)
(* The dictionary used directly: beside a caller of the wrapper, a second  *)
(* client holds the _S3Dict of the same bucket and calls popitem on it, in *)
(* either direction, at any time.                                          *)
(***************************************************************************)
\* _S3Dict.popitem(last) called by p: KeyError on an empty bucket, else one
\* object with the extreme last_modified is deleted and its key returned
PopItem(p, last) ==
  /\ p \in Callers
  /\ pc[p] = "idle"
  /\ op' = [op EXCEPT ![p] = "popitem"]
  /\ args' = [args EXCEPT ![p] = CallOf(<<PyBool(last)>>, <<>>)]
  /\ key' = [key EXCEPT ![p] = NoOp.key]
  /\ rd' = [rd EXCEPT ![p] = NoOp.rd]
  /\ result' = [result EXCEPT ![p] = NoOp.result]
  /\ ret' = [ret EXCEPT ![p] = NoOp.ret]
  /\ IF DOMAIN bucket = {}
     THEN /\ status' = [status EXCEPT ![p] = "KeyError"]
          /\ evicted' = [evicted EXCEPT ![p] = NoOp.evicted]
          /\ UNCHANGED <<bucket, queue>>
     ELSE \E target \in PopTargets(bucket, last) :
            /\ bucket' = Without(bucket, target)
            /\ queue' = Remove(queue, target)
            /\ evicted' = [evicted EXCEPT ![p] = target]
            /\ status' = [status EXCEPT ![p] = "returned"]
  /\ UNCHANGED <<config, now, lifecycle, counters, pc, wr>>

\* the client of the dictionary
DictCallers == Callers \ ActiveCallers

InitDict ==
  /\ is_lru \in BOOLEAN
  /\ maxsize \in {Limit(n) : n \in 1..MaxSize}
  /\ typed = FALSE
  /\ Fresh

NextDict ==
  \/ \E p \in ActiveCallers, w \in ActiveWrappers, c \in SharedCallArgs :
        Call(p, w, c)
  \/ \E p \in ActiveCallers : Invoke(p)
  \/ \E p \in ActiveCallers : Check(p)
  \/ \E p \in ActiveCallers : Evict(p)
  \/ \E p \in ActiveCallers : Put(p)
  \/ \E p \in DictCallers, last \in BOOLEAN : PopItem(p, last)

SpecDict == InitDict /\ [][NextDict]_vars

\* this step is p's direct call of popitem: no wrapper call moves in it
PopItemStep(p) ==
  /\ p \in DictCallers
  /\ pc[p] = "idle"
  /\ op'[p] = "popitem"
  /\ pc' = pc
  /\ counters' = counters

\* this step is the popitem of p's wrapper call
WrapperPopStep(p) == pc[p] = "evict" /\ pc'[p] # "evict"

\* the step deletes the object under k and nothing else
DeletesOnly(k) ==
  /\ k \in DOMAIN bucket
  /\ DOMAIN bucket' = DOMAIN bucket \ {k}
  /\ \A x \in DOMAIN bucket' : bucket'[x] = bucket[x]

(***************************************************************************)
(* C17: popitem on a non-empty bucket deletes exactly one object, one with *)
(* the least last_modified when last is false and one with the greatest    *)
(* when last is true, and leaves every other object as it was; on an empty *)
(* bucket it raises KeyError and deletes nothing, and the wrapper, whose   *)
(* miss path calls popitem(last=False), lets the KeyError through to its   *)
(* caller: the call ends there, without a put.                             *)
(***************************************************************************)
C17_PopStep ==
  \A p \in Callers :
    /\ (PopItemStep(p) /\ DOMAIN bucket # {})
         => /\ status'[p] = "returned"
            /\ DeletesOnly(evicted'[p])
            /\ IF args'[p].args[1] = PyBool(TRUE)
               THEN Newest(bucket, evicted'[p])
               ELSE Oldest(bucket, evicted'[p])
    /\ (PopItemStep(p) /\ DOMAIN bucket = {})
         => /\ status'[p] = "KeyError"
            /\ bucket' = bucket
    /\ (WrapperPopStep(p) /\ DOMAIN bucket # {})
         => /\ DeletesOnly(evicted'[p])
            /\ Oldest(bucket, evicted'[p])
            /\ pc'[p] = "put"
    /\ (WrapperPopStep(p) /\ DOMAIN bucket = {})
         => /\ status'[p] = "KeyError"
            /\ pc'[p] = "idle"
            /\ bucket' = bucket
            /\ ret'[p] = NoValue
            /\ counters' = counters

C17_PopItem == [][C17_PopStep]_vars

\* popitem(last=True) deleted the only object while a wrapper call was about
\* to evict: the call's own popitem found the bucket empty and raised
C17_Witness ==
  /\ op["c2"] = "popitem"
  /\ args["c2"].args[1] = PyBool(TRUE)
  /\ status["c2"] = "returned"
  /\ evicted["c2"] # ""
  /\ pc["c1"] = "idle"
  /\ op["c1"] = "call"
  /\ status["c1"] = "KeyError"
  /\ key["c1"] \notin DOMAIN bucket
  /\ DOMAIN bucket = {}

(***************************************************************************)
(* The statistics in use: one caller, one wrapper, every operation of the  *)
(* wrapper, cache_info included, and calls with and without a hashable     *)
(* argument.                                                               *)
(***************************************************************************)
\* f(1), f(2) and f([1])
CountedCallArgs ==
  SharedCallArgs \cup { CallOf(<<PyList("1")>>, <<>>) }

InitCounters ==
  /\ is_lru \in BOOLEAN
  /\ maxsize \in {Unlimited} \cup {Limit(n) : n \in 1..MaxSize}
  /\ typed = FALSE
  /\ Fresh

NextCounters ==
  \/ \E p \in ActiveCallers, w \in ActiveWrappers, c \in CountedCallArgs :
        Call(p, w, c)
  \/ \E p \in ActiveCallers : Invoke(p)
  \/ \E p \in ActiveCallers : InvokeRaises(p)
  \/ \E p \in ActiveCallers : Check(p)
  \/ \E p \in ActiveCallers : Evict(p)
  \/ \E p \in ActiveCallers : Put(p)
  \/ \E p \in ActiveCallers, w \in ActiveWrappers : CacheInfo(p, w)
  \/ \E p \in ActiveCallers, w \in ActiveWrappers : CacheClear(p, w)
  \/ \E p \in ActiveCallers, w \in ActiveWrappers, d \in SharedDays :
        CacheSetExpiration(p, w, d)

SpecCounters == InitCounters /\ [][NextCounters]_vars

\* this step is caller p beginning a wrapper call that derives a key
KeyedCallStep(p) == pc[p] = "idle" /\ op'[p] = "call" /\ key'[p] # ""

(***************************************************************************)
(* C18: one wrapper used sequentially.  Only cache_clear lowers hits or    *)
(* misses, and it sets both to zero.  A wrapper call that gets past key    *)
(* derivation adds exactly 1 to exactly one of them, when it has read the  *)
(* store: to hits when the get returned a value, to misses otherwise; no   *)
(* later step of the call changes them, whether the user function or the   *)
(* put succeeds or fails.  So hits + misses is the number of such calls    *)
(* since construction or the last clear.  cache_info() and                 *)
(* cache_set_expiration() change neither counter, and cache_info() reports *)
(* both as they are.                                                       *)
(***************************************************************************)
C18_CountsCalls ==
  \A w \in Wrappers :
    /\ hits[w] + misses[w] = called[w]
    /\ hits[w] >= 0 /\ misses[w] >= 0

C18_CounterStep ==
  \A p \in ActiveCallers :
    /\ KeyedCallStep(p)
         => /\ called'[wr'[p]] = called[wr'[p]] + 1
            /\ IF rd'[p] = "ok"
               THEN /\ hits'[wr'[p]] = hits[wr'[p]] + 1
                    /\ misses' = misses
                    /\ status'[p] = "returned"
               ELSE /\ misses'[wr'[p]] = misses[wr'[p]] + 1
                    /\ hits' = hits
                    /\ pc'[p] = "invoke"
    /\ (pc[p] = "idle" /\ op'[p] = "call" /\ key'[p] = "")
         => counters' = counters
    /\ pc[p] # "idle" => counters' = counters
    /\ (pc[p] = "idle" /\ op'[p] \in {"info", "expiration"})
         => counters' = counters
    /\ (pc[p] = "idle" /\ op'[p] = "info")
         => /\ ret'[p].hits = hits[wr'[p]]
            /\ ret'[p].misses = misses[wr'[p]]
    /\ (pc[p] = "idle" /\ op'[p] = "clear")
         => /\ hits'[wr'[p]] = 0
            /\ misses'[wr'[p]] = 0
            /\ called'[wr'[p]] = 0
    /\ op'[p] # "clear"
         => \A w \in Wrappers : hits'[w] >= hits[w] /\ misses'[w] >= misses[w]

C18_CountersCount == []C18_CountsCalls /\ [][C18_CounterStep]_vars

\* of three calls one hit and two missed, the last miss ending with the
\* user function's failure
C18_Witness ==
  /\ pc["c1"] = "idle"
  /\ op["c1"] = "call"
  /\ status["c1"] = "UserError"
  /\ now >= 1
  /\ called["A"] = 3
  /\ cache_info("A").hits = 1
  /\ cache_info("A").misses = 2
  /\ cache_info("A").currsize = 1

\* every key stored in b is stored in b1
Kept(b, b1) == \A x \in DOMAIN b : x \in DOMAIN b1

(***************************************************************************)
(* C19: one wrapper used sequentially, maxsize a positive integer or None, *)
(* nothing else deleting from the bucket.  No wrapper call raises          *)
(* popitem's KeyError: popitem runs only right after a count >= maxsize    *)
(* >= 1, so on a bucket that is not empty.  With maxsize None popitem is   *)
(* never called, and objects leave the bucket through cache_clear only.    *)
(* With an integer maxsize they leave through popitem and cache_clear      *)
(* only.                                                                   *)
(***************************************************************************)
C19_PopOnNonEmpty ==
  /\ maxsize.int => maxsize.n >= 1
  /\ \A p \in Callers :
       /\ status[p] # "KeyError"
       /\ pc[p] = "evict"
            => /\ maxsize.int
               /\ S3Len(bucket) >= maxsize.n
               /\ DOMAIN bucket # {}
       /\ ~maxsize.int => pc[p] # "evict" /\ evicted[p] = ""

C19_LeaveStep ==
  \A p \in ActiveCallers :
    /\ (~maxsize.int /\ ~ClearStep(p)) => Kept(bucket, bucket')
    /\ (maxsize.int /\ ~ClearStep(p) /\ ~WrapperPopStep(p)) => Kept(bucket, bucket')
    /\ WrapperPopStep(p) => pc'[p] = "put" /\ S3Len(bucket') = S3Len(bucket) - 1

C19_NoEmptyStoreError == []C19_PopOnNonEmpty /\ [][C19_LeaveStep]_vars

\* maxsize=1, after a clear and two misses: the second miss's popitem is
\* about to run, on a bucket of one object
C19_Witness ==
  /\ maxsize = Limit(1)
  /\ pc["c1"] = "evict"
  /\ called["A"] = 2
  /\ cache_info("A").misses = 2
  /\ cache_info("A").currsize = 1
  /\ lifecycle # <<>>
  /\ now >= 2

\* this step is the put of p's call failing at serialization
FailedPutStep(p) ==
  pc[p] = "put" /\ pc'[p] = "idle" /\ status'[p] = "TypeError"

(***************************************************************************)
(* C20 as stated: on a miss at capacity (count >= maxsize = N) whose put   *)
(* fails, the error propagates, misses has been incremented, the call's    *)
(* key is absent from the store, and the store has lost the evicted entry: *)
(* it holds one object fewer than before the call.                         *)
(***************************************************************************)
C20_KeyAbsent ==
  [][\A p \in ActiveCallers :
       (FailedPutStep(p) /\ evicted[p] # "")
         => /\ ret'[p] = NoValue
            /\ misses'[wr[p]] >= 1
            /\ evicted[p] \notin DOMAIN bucket'
            /\ S3Len(bucket') = maxsize.n - 1
            /\ key[p] \notin DOMAIN bucket']_vars

(***************************************************************************)
(* C20 amended: on a miss the eviction precedes the put and is not undone. *)
(* When the count read is N = maxsize the call deletes one object, and     *)
(* when its put then fails at serialization the error goes to the caller,  *)
(* the miss stays counted, nothing is written, and the store holds N - 1   *)
(* objects, the evicted one not among them.  The call's key is absent if   *)
(* the miss found no object under it; after a miss that came from a failed *)
(* read of a stored entry, that entry is still stored unless it was the    *)
(* one evicted.                                                            *)
(***************************************************************************)
C20_MissCounted ==
  \A p \in ActiveCallers :
    pc[p] \in {"invoke", "check", "evict", "put"} => misses[wr[p]] >= 1

C20_FailedPutStep ==
  \A p \in ActiveCallers :
    /\ (pc[p] = "check" /\ pc'[p] = "evict") => S3Len(bucket) = maxsize.n
    /\ WrapperPopStep(p)
         => /\ S3Len(bucket') = maxsize.n - 1
            /\ evicted'[p] \notin DOMAIN bucket'
    /\ (FailedPutStep(p) /\ evicted[p] # "")
         => /\ ret'[p] = NoValue
            /\ bucket' = bucket
            /\ counters' = counters
            /\ misses'[wr[p]] >= 1
            /\ evicted[p] \notin DOMAIN bucket'
            /\ S3Len(bucket') = maxsize.n - 1
            /\ rd[p] = "notfound" => key[p] \notin DOMAIN bucket'
            /\ key[p] \in DOMAIN bucket'
                 => rd[p] \in {"download", "copy", "decode"} /\ key[p] # evicted[p]

C20_EvictionNotRolledBack == []C20_MissCounted /\ [][C20_FailedPutStep]_vars

\* maxsize=1, one object stored: a miss on another key evicted it, its
\* result could not be serialized, and nothing is left
C20_Witness ==
  /\ maxsize = Limit(1)
  /\ pc["c1"] = "idle"
  /\ status["c1"] = "TypeError"
  /\ key["c1"] # ""
  /\ rd["c1"] = "notfound"
  /\ result["c1"] = PySet("1")
  /\ evicted["c1"] # ""
  /\ S3Len(bucket) = 0
  /\ cache_info("A").misses = 2

====
